---- MODULE Spec2Model ----
(***************************************************************************)
(* A model of the toy automatic-differentiation framework of               *)
(* extra_autodiff.ipynb: the expression graph (Const, Var, Add, Mul), its  *)
(* forward-mode symbolic gradient, the DualNumber arithmetic and the       *)
(* reverse-mode evaluate/backpropagate pass.                               *)
(*                                                                         *)
(* Python objects live in `heap`, a sequence of node records; an object's  *)
(* identity is its index.  Python numbers are integers here; a Python      *)
(* value is either a bare number or a DualNumber, see Num and DualNumber.  *)
(***************************************************************************)
EXTENDS Integers, Sequences, FiniteSets, TLC

VARIABLES
  heap,    \* the node objects, in order of construction
  refs,    \* the nodes bound to a notebook variable (x, y, f, dfdx, ...)
  last,    \* the most recent evaluate/backpropagate/gradient call and its result
  pass,    \* history of the reverse-mode passes on one root, see NoPass
  nbp,     \* number of backpropagate calls made so far
  derivs,  \* the gradient() calls made so far: result, differentiated node, target,
           \* and whether a Var of the differentiated node was given another value since
  evald,   \* the Add and Mul nodes evaluate() has run on, as a root or as an operand
  fd       \* the call of gradients(): its arguments, the calls of func it made, its result

vars == <<heap, refs, last, pass, nbp, derivs, evald, fd>>

(***************************************************************************)
(* Bounds of the model.                                                    *)
(***************************************************************************)
MaxNodes == 3        \* the client constructs nodes while the heap holds fewer
MaxVal == 1          \* numbers the client gives to Const and to Var.value are 0..MaxVal
MaxSeed == 2         \* seeds given to backpropagate are 1..MaxSeed
MaxBackprops == 2    \* backpropagate calls in one behaviour
MaxGradCalls == 2    \* gradient calls in one behaviour
MaxEps == 1          \* eps components given to Var.value are 0..MaxEps
MaxArith == 7        \* operands of the DualNumber arithmetic have components 0..MaxArith

Vals == 0 .. MaxVal
Seeds == 1 .. MaxSeed
EpsVals == 0 .. MaxEps
ArithVals == 0 .. MaxArith
\* The name given to the Vars the client constructs: distinct Var objects
\* share it.  The Vars of f are named "x" and "y".
Names == {"x"}

(***************************************************************************)
(* Python values.  A bare number n is Num(n); DualNumber(v, e) is the      *)
(* object built by DualNumber.__init__.  `dual` tells the two apart, as    *)
(* hasattr(n, "value") does in to_dual.                                    *)
(***************************************************************************)
Num(n) == [dual |-> FALSE, value |-> n, eps |-> 0]

DualNumber(value, eps) == [dual |-> TRUE, value |-> value, eps |-> eps]

\* A slip in to_dual: the number becomes both components, cls(n, n)
to_dual_both(n) == IF n.dual THEN n ELSE DualNumber(n.value, n.value)

to_dual(n) == IF n.dual THEN n ELSE DualNumber(n.value, 0)

Dual__add__(self, b) ==
  DualNumber(self.value + to_dual(b).value, self.eps + to_dual(b).eps)

Dual__radd__(self, a) == Dual__add__(to_dual(a), self)

\* A slip in __mul__: the eps components are multiplied as well
Dual__mul__keeps_eps2(self, b) ==
  DualNumber(self.value * to_dual(b).value,
             self.eps * to_dual(b).value + self.value * to_dual(b).eps
               + self.eps * to_dual(b).eps)

Dual__mul__(self, b) ==
  DualNumber(self.value * to_dual(b).value,
             self.eps * to_dual(b).value + self.value * to_dual(b).eps)

Dual__rmul__(self, a) == Dual__mul__(to_dual(a), self)

\* Python's p + q: p.__add__(q) when p is a DualNumber; a bare p returns
\* NotImplemented for a DualNumber q, and Python then calls q.__radd__(p).
PyAdd(p, q) ==
  IF p.dual THEN Dual__add__(p, q)
  ELSE IF q.dual THEN Dual__radd__(q, p)
  ELSE Num(p.value + q.value)

PyMul(p, q) ==
  IF p.dual THEN Dual__mul__(p, q)
  ELSE IF q.dual THEN Dual__rmul__(q, p)
  ELSE Num(p.value * q.value)

(***************************************************************************)
(* Node objects.  `has` says whether the attribute `value` exists: Const   *)
(* and Var set it in __init__, BinaryOperator.__init__ does not.           *)
(* `gradient` is the accumulator of the reverse-mode Var.                  *)
(***************************************************************************)
Const(value) ==
  [kind |-> "Const", a |-> 0, b |-> 0, name |-> "", value |-> value,
   has |-> TRUE, gradient |-> Num(0)]

\* A slip in Var.__init__: self.gradient = init_value
VarGradientFromInit(name, init_value) ==
  [kind |-> "Var", a |-> 0, b |-> 0, name |-> name, value |-> init_value,
   has |-> TRUE, gradient |-> init_value]

Var(name, init_value) ==
  [kind |-> "Var", a |-> 0, b |-> 0, name |-> name, value |-> init_value,
   has |-> TRUE, gradient |-> Num(0)]

\* A variant of BinaryOperator.__init__ that also sets self.value = 0
BinaryOperatorWithValue(kind, a, b) ==
  [kind |-> kind, a |-> a, b |-> b, name |-> "", value |-> Num(0),
   has |-> TRUE, gradient |-> Num(0)]

BinaryOperator(kind, a, b) ==
  [kind |-> kind, a |-> a, b |-> b, name |-> "", value |-> Num(0),
   has |-> FALSE, gradient |-> Num(0)]

Add(a, b) == BinaryOperator("Add", a, b)

Mul(a, b) == BinaryOperator("Mul", a, b)

IsLeaf(h, n) == h[n].kind \in {"Const", "Var"}

IsVar(h, n) == h[n].kind = "Var"

\* x = Var("x", 3); y = Var("y", 4); f = Add(Mul(Mul(x, x), y), Add(y, Const(2)))
\* Python evaluates the arguments left to right, so the objects are created
\* in this order.
FGraph ==
  << Var("x", Num(3)), Var("y", Num(4)), Mul(1, 1), Mul(3, 2), Const(Num(2)),
     Add(2, 5), Add(4, 6) >>

FX == 1
FY == 2
FRoot == 7

(***************************************************************************)
(* Reverse-mode classes: evaluate caches the value on Add and Mul nodes.   *)
(* The operators return the heap after the call and the returned value.    *)
(***************************************************************************)
RECURSIVE evaluate(_, _)

RevAddEvaluate(h, n) ==
  LET ra == evaluate(h, h[n].a)
      rb == evaluate(ra.h, h[n].b)
      v == PyAdd(ra.v, rb.v)
  IN [h |-> [rb.h EXCEPT ![n].value = v, ![n].has = TRUE], v |-> v]

\* A variant of Mul.evaluate that short-circuits: when self.a evaluates to 0,
\* self.b is not evaluated
RevMulEvaluateShortCircuit(h, n) ==
  LET ra == evaluate(h, h[n].a)
      rb == evaluate(ra.h, h[n].b)
      v == PyMul(ra.v, rb.v)
  IN IF ra.v = Num(0)
     THEN [h |-> [ra.h EXCEPT ![n].value = Num(0), ![n].has = TRUE], v |-> Num(0)]
     ELSE [h |-> [rb.h EXCEPT ![n].value = v, ![n].has = TRUE], v |-> v]

RevMulEvaluate(h, n) ==
  LET ra == evaluate(h, h[n].a)
      rb == evaluate(ra.h, h[n].b)
      v == PyMul(ra.v, rb.v)
  IN [h |-> [rb.h EXCEPT ![n].value = v, ![n].has = TRUE], v |-> v]

\* A variant of Var.evaluate that zeroes the accumulator for the coming pass
RevVarEvaluateResetting(h, n) ==
  [h |-> [h EXCEPT ![n].gradient = Num(0)], v |-> h[n].value]

RevVarEvaluate(h, n) == [h |-> h, v |-> h[n].value]

evaluate(h, n) ==
  CASE h[n].kind = "Const" -> [h |-> h, v |-> h[n].value]
    [] h[n].kind = "Var" -> RevVarEvaluate(h, n)
    [] h[n].kind = "Add" -> RevAddEvaluate(h, n)
    [] h[n].kind = "Mul" -> RevMulEvaluate(h, n)

(***************************************************************************)
(* backpropagate returns the heap after the call and whether it raised.    *)
(* Reading self.b.value of a node whose value attribute does not exist     *)
(* raises AttributeError; what was accumulated before stays accumulated.   *)
(***************************************************************************)
RECURSIVE backpropagate(_, _, _)

\* A slip in Var.backpropagate: only an empty accumulator takes the gradient
VarBackpropagateFirstOnly(h, n, gradient) ==
  [h |-> IF h[n].gradient = Num(0) THEN [h EXCEPT ![n].gradient = gradient] ELSE h,
   err |-> FALSE]

\* A slip in Var.backpropagate: self.gradient = gradient
VarBackpropagateAssign(h, n, gradient) ==
  [h |-> [h EXCEPT ![n].gradient = gradient], err |-> FALSE]

VarBackpropagate(h, n, gradient) ==
  [h |-> [h EXCEPT ![n].gradient = PyAdd(@, gradient)], err |-> FALSE]

AddBackpropagate(h, n, gradient) ==
  LET ra == backpropagate(h, h[n].a, gradient)
  IN IF ra.err THEN ra ELSE backpropagate(ra.h, h[n].b, gradient)

\* A variant of Mul.backpropagate that recomputes the operand: self.b.evaluate()
OperandValueRecomputed(h, o) == evaluate(h, o).v

\* The value a Mul node reads from an operand: the operand's value attribute.
OperandValue(h, o) == h[o].value

MulBackpropagate(h, n, gradient) ==
  IF ~h[h[n].b].has THEN [h |-> h, err |-> TRUE]
  ELSE LET ra == backpropagate(h, h[n].a, PyMul(gradient, OperandValue(h, h[n].b)))
       IN IF ra.err THEN ra
          ELSE IF ~ra.h[h[n].a].has THEN [h |-> ra.h, err |-> TRUE]
          ELSE backpropagate(ra.h, h[n].b, PyMul(gradient, OperandValue(ra.h, h[n].a)))

backpropagate(h, n, gradient) ==
  CASE h[n].kind = "Const" -> [h |-> h, err |-> FALSE]
    [] h[n].kind = "Var" -> VarBackpropagate(h, n, gradient)
    [] h[n].kind = "Add" -> AddBackpropagate(h, n, gradient)
    [] h[n].kind = "Mul" -> MulBackpropagate(h, n, gradient)

(***************************************************************************)
(* Reference mathematics, independent of the differentiation code: the     *)
(* graph under a node denotes a polynomial in its Var objects.  A          *)
(* polynomial is a sequence of terms c * v1 * ... * vk, a term being       *)
(* [c |-> coefficient, m |-> sequence of Var identities]; it is            *)
(* differentiated term by term with the power rule.                        *)
(***************************************************************************)
RECURSIVE Reach(_, _)
Reach(h, n) ==
  IF IsLeaf(h, n) THEN {n} ELSE {n} \cup Reach(h, h[n].a) \cup Reach(h, h[n].b)

VarsOf(h, n) == {v \in Reach(h, n) : IsVar(h, v)}

PolyTimes(p, q) ==
  [i \in 1 .. Len(p) * Len(q) |->
     LET s == p[((i - 1) \div Len(q)) + 1]
         t == q[((i - 1) % Len(q)) + 1]
     IN [c |-> s.c * t.c, m |-> s.m \o t.m]]

RECURSIVE PolyOf(_, _)
PolyOf(h, n) ==
  CASE h[n].kind = "Const" -> << [c |-> h[n].value.value, m |-> << >>] >>
    [] h[n].kind = "Var" -> << [c |-> 1, m |-> << n >>] >>
    [] h[n].kind = "Add" -> PolyOf(h, h[n].a) \o PolyOf(h, h[n].b)
    [] h[n].kind = "Mul" -> PolyTimes(PolyOf(h, h[n].a), PolyOf(h, h[n].b))

Count(m, u) == Cardinality({i \in DOMAIN m : m[i] = u})

RemoveOne(m, u) ==
  LET i == CHOOSE i \in DOMAIN m : m[i] = u /\ \A j \in 1 .. i - 1 : m[j] # u
  IN SubSeq(m, 1, i - 1) \o SubSeq(m, i + 1, Len(m))

\* d(c * m)/du = (c * k) * (m with one u removed), k the exponent of u in m.
PolyD(p, u) ==
  [i \in DOMAIN p |->
     IF Count(p[i].m, u) = 0 THEN [c |-> 0, m |-> << >>]
     ELSE [c |-> p[i].c * Count(p[i].m, u), m |-> RemoveOne(p[i].m, u)]]

RECURSIVE Prod(_, _)
Prod(m, val) == IF m = << >> THEN 1 ELSE val[Head(m)] * Prod(Tail(m), val)

RECURSIVE PolyAt(_, _)
PolyAt(p, val) ==
  IF p = << >> THEN 0 ELSE Head(p).c * Prod(Head(p).m, val) + PolyAt(Tail(p), val)

\* The point a heap is at: the numeric component of every node's value.
Point(h) == [n \in DOMAIN h |-> h[n].value.value]

\* The value of node n, and its partial derivative with respect to Var u,
\* at the point val.
ValueAt(h, n, val) == PolyAt(PolyOf(h, n), val)

Partial(h, n, u, val) == PolyAt(PolyD(PolyOf(h, n), u), val)

\* The second partial derivative of node n, first by u and then by v.
Partial2(h, n, u, v, val) == PolyAt(PolyD(PolyD(PolyOf(h, n), u), v), val)

(***************************************************************************)
(* History of the reverse-mode passes on one root.  A pass starts with an  *)
(* evaluate() on a root all of whose Vars have accumulator 0; `pt` is the  *)
(* point of the most recent evaluate(), `k` the number of                  *)
(* evaluate()+backpropagate(1.0) passes completed since.  Stages:          *)
(*   evaluated  evaluate() has returned, nothing rebound since             *)
(*   stale      a Var of the root was rebound after that evaluate()        *)
(*   done       backpropagate(1.0) returned after stage evaluated          *)
(*   staledone  backpropagate(1.0) returned after stage stale              *)
(***************************************************************************)
NoPass == [root |-> 0, k |-> 0, stage |-> "none", pt |-> << >>]

AllZero(h, n) == \A v \in VarsOf(h, n) : h[v].gradient = Num(0)

SamePoint(h, n, pt) == \A v \in VarsOf(h, n) : h[v].value.value = pt[v]

Call(op, node, arg, ret, err) ==
  [op |-> op, node |-> node, arg |-> arg, ret |-> ret, err |-> err]

NoCall == Call("none", 0, Num(0), Num(0), FALSE)

\* No call of gradients() has been made or prepared.
NoGradients ==
  [stage |-> "none", func |-> "none", given |-> << >>, vars_list |-> << >>,
   eps |-> 1, calls |-> << >>, ret |-> << >>]

(***************************************************************************)
(* The client's operations.                                                *)
(***************************************************************************)
Alloc(nd) ==
  /\ Len(heap) < MaxNodes
  /\ heap' = Append(heap, nd)
  /\ refs' = refs \cup {Len(heap) + 1}
  /\ last' = NoCall
  /\ UNCHANGED <<pass, nbp, derivs, evald, fd>>

NewConst == \E v \in Vals : Alloc(Const(Num(v)))

\* Var(name): init_value defaults to 0
NewVar == \E name \in Names : Alloc(Var(name, Num(0)))

NewAdd == \E a \in refs, b \in refs : Alloc(Add(a, b))

NewMul == \E a \in refs, b \in refs : Alloc(Mul(a, b))

\* x.value = v
Rebind(n, v) ==
  /\ IsVar(heap, n)
  /\ heap' = [heap EXCEPT ![n].value = v]
  /\ last' = NoCall
  /\ pass' = IF pass.stage = "evaluated" /\ n \in Reach(heap, pass.root)
             THEN [pass EXCEPT !.stage = "stale"]
             ELSE IF pass.stage = "staledone" /\ n \in Reach(heap, pass.root)
             THEN NoPass
             ELSE pass
  /\ derivs' = [i \in DOMAIN derivs |->
                 IF n \in Reach(heap, derivs[i].of) /\ v # heap[n].value
                 THEN [derivs[i] EXCEPT !.rebound = TRUE]
                 ELSE derivs[i]]
  /\ UNCHANGED <<refs, nbp, evald, fd>>

RebindNum == \E n \in refs, v \in Vals : Rebind(n, Num(v))

\* result = n.evaluate(), reverse-mode classes
RevEvaluate ==
  \E n \in refs :
    LET r == evaluate(heap, n) IN
    /\ heap' = r.h
    /\ last' = Call("evaluate", n, Num(0), r.v, FALSE)
    /\ pass' = IF /\ pass.root = n
                  /\ pass.stage \in {"evaluated", "done"}
                  /\ SamePoint(heap, n, pass.pt)
               THEN [pass EXCEPT !.stage = "evaluated"]
               ELSE IF AllZero(heap, n)
               THEN [root |-> n, k |-> 0, stage |-> "evaluated", pt |-> Point(heap)]
               ELSE NoPass
    /\ evald' = evald \cup {m \in Reach(heap, n) : ~IsLeaf(heap, m)}
    /\ fd' = fd
    /\ UNCHANGED <<refs, nbp, derivs>>

\* n.backpropagate(seed)
RevBackpropagate ==
  \E n \in refs, seed \in Seeds :
    LET r == backpropagate(heap, n, Num(seed)) IN
    /\ nbp < MaxBackprops
    /\ nbp' = nbp + 1
    /\ heap' = r.h
    /\ last' = Call("backpropagate", n, Num(seed), Num(0), r.err)
    /\ pass' = IF /\ pass.root = n
                  /\ pass.stage \in {"evaluated", "stale"}
                  /\ seed = 1
                  /\ ~r.err
               THEN [pass EXCEPT !.k = @ + 1,
                                 !.stage = IF @ = "evaluated" THEN "done" ELSE "staledone"]
               ELSE NoPass
    /\ UNCHANGED <<refs, derivs, evald, fd>>

(***************************************************************************)
(* The reverse-mode notebook: either nothing is constructed yet, or the    *)
(* graph of f has just been constructed with x = 3, y = 4.                 *)
(***************************************************************************)
InitCommon ==
  /\ \/ heap = << >> /\ refs = {}
     \/ heap = FGraph /\ refs = {FX, FY, FRoot}
  /\ last = NoCall
  /\ pass = NoPass
  /\ nbp = 0
  /\ derivs = << >>
  /\ evald = {}
  /\ fd = NoGradients

RevNext ==
  \/ NewConst
  \/ NewVar
  \/ NewAdd
  \/ NewMul
  \/ RebindNum
  \/ RevEvaluate
  \/ RevBackpropagate

SpecRev == InitCommon /\ [][RevNext]_vars

(***************************************************************************)
(* Forward-mode classes: evaluate caches nothing, and gradient() builds a  *)
(* new graph.  gradient returns the heap after the call and the node it    *)
(* returns.  Python evaluates constructor arguments left to right, which   *)
(* fixes the order in which the new objects are created.                   *)
(***************************************************************************)
RECURSIVE FwdEvaluate(_, _)

FwdAddEvaluate(h, n) == PyAdd(FwdEvaluate(h, h[n].a), FwdEvaluate(h, h[n].b))

FwdMulEvaluate(h, n) == PyMul(FwdEvaluate(h, h[n].a), FwdEvaluate(h, h[n].b))

FwdEvaluate(h, n) ==
  CASE h[n].kind = "Const" -> h[n].value
    [] h[n].kind = "Var" -> h[n].value
    [] h[n].kind = "Add" -> FwdAddEvaluate(h, n)
    [] h[n].kind = "Mul" -> FwdMulEvaluate(h, n)

New(h, nd) == [h |-> Append(h, nd), r |-> Len(h) + 1]

RECURSIVE gradient(_, _, _)

\* A variant of Const.gradient that zeroes the node and returns it
ConstGradientInPlace(h, n, var) == [h |-> [h EXCEPT ![n].value = Num(0)], r |-> n]

ConstGradient(h, n, var) == New(h, Const(Num(0)))

\* A slip in Var.gradient: self.name == var.name
VarGradientByName(h, n, var) ==
  IF h[n].name = h[var].name THEN New(h, Const(Num(1))) ELSE New(h, Const(Num(0)))

VarGradient(h, n, var) ==
  IF n = var THEN New(h, Const(Num(1))) ELSE New(h, Const(Num(0)))

\* A variant of Add.gradient that simplifies: a summand Const(0) is dropped
AddGradientSimplified(h, n, var) ==
  LET ga == gradient(h, h[n].a, var)
      gb == gradient(ga.h, h[n].b, var)
  IN IF gb.h[gb.r].kind = "Const" /\ gb.h[gb.r].value = Num(0)
     THEN [h |-> gb.h, r |-> ga.r]
     ELSE New(gb.h, Add(ga.r, gb.r))

AddGradient(h, n, var) ==
  LET ga == gradient(h, h[n].a, var)
      gb == gradient(ga.h, h[n].b, var)
  IN New(gb.h, Add(ga.r, gb.r))

\* A slip in Mul.gradient: Mul(self.a.gradient(var), self.b.gradient(var))
MulGradientOfFactors(h, n, var) ==
  LET ga == gradient(h, h[n].a, var)
      gb == gradient(ga.h, h[n].b, var)
  IN New(gb.h, Mul(ga.r, gb.r))

\* A variant of Mul.gradient that takes the first operand at its present
\* value: Add(Mul(Const(self.a.evaluate()), b'), Mul(a', self.b))
MulGradientFirstOperandValue(h, n, var) ==
  LET ca == New(h, Const(FwdEvaluate(h, h[n].a)))
      gb == gradient(ca.h, h[n].b, var)
      m1 == New(gb.h, Mul(ca.r, gb.r))
      ga == gradient(m1.h, h[n].a, var)
      m2 == New(ga.h, Mul(ga.r, h[n].b))
  IN New(m2.h, Add(m1.r, m2.r))

\* A variant of Mul.gradient that copies the operands' present values into
\* Consts: Add(Mul(Const(self.a.evaluate()), b'), Mul(a', Const(self.b.evaluate())))
MulGradientSnapshot(h, n, var) ==
  LET ca == New(h, Const(FwdEvaluate(h, h[n].a)))
      gb == gradient(ca.h, h[n].b, var)
      m1 == New(gb.h, Mul(ca.r, gb.r))
      ga == gradient(m1.h, h[n].a, var)
      cb == New(ga.h, Const(FwdEvaluate(h, h[n].b)))
      m2 == New(cb.h, Mul(ga.r, cb.r))
  IN New(m2.h, Add(m1.r, m2.r))

MulGradient(h, n, var) ==
  LET gb == gradient(h, h[n].b, var)
      m1 == New(gb.h, Mul(h[n].a, gb.r))
      ga == gradient(m1.h, h[n].a, var)
      m2 == New(ga.h, Mul(ga.r, h[n].b))
  IN New(m2.h, Add(m1.r, m2.r))

gradient(h, n, var) ==
  CASE h[n].kind = "Const" -> ConstGradient(h, n, var)
    [] h[n].kind = "Var" -> VarGradient(h, n, var)
    [] h[n].kind = "Add" -> AddGradient(h, n, var)
    [] h[n].kind = "Mul" -> MulGradient(h, n, var)

\* n.evaluate(), forward-mode classes
FwdEvaluateCall ==
  \E n \in refs :
    /\ last' = Call("evaluate", n, Num(0), FwdEvaluate(heap, n), FALSE)
    /\ UNCHANGED <<heap, refs, pass, nbp, derivs, evald, fd>>

\* d = n.gradient(var)
GradientCall ==
  \E n \in refs, var \in refs :
    LET g == gradient(heap, n, var) IN
    /\ IsVar(heap, var)
    /\ Len(derivs) < MaxGradCalls
    /\ heap' = g.h
    /\ refs' = refs \cup {g.r}
    /\ derivs' = Append(derivs, [r |-> g.r, of |-> n, wrt |-> var, rebound |-> FALSE])
    /\ last' = Call("gradient", n, Num(0), Num(0), FALSE)
    /\ UNCHANGED <<pass, nbp, evald, fd>>

FwdNext ==
  \/ NewConst
  \/ NewVar
  \/ NewAdd
  \/ NewMul
  \/ RebindNum
  \/ FwdEvaluateCall
  \/ GradientCall

SpecFwd == InitCommon /\ [][FwdNext]_vars

(***************************************************************************)
(* The dual-number cells: the forward-mode graph evaluated with            *)
(* DualNumber values bound to its Vars.                                    *)
(***************************************************************************)
\* x.value = DualNumber(v, e); v is a small number or the Var's present one
RebindDual ==
  \E n \in refs, e \in EpsVals :
    \E v \in Vals \cup {heap[n].value.value} : Rebind(n, DualNumber(v, e))

DualEvalNext ==
  \/ NewConst
  \/ NewVar
  \/ NewAdd
  \/ NewMul
  \/ RebindNum
  \/ RebindDual
  \/ FwdEvaluateCall

SpecDualEval == InitCommon /\ [][DualEvalNext]_vars

(***************************************************************************)
(* The DualNumber arithmetic alone: two operands are drawn, at least one   *)
(* of them a DualNumber, and p + q or p * q is computed.  `last` holds the *)
(* operands and then the result.                                           *)
(***************************************************************************)
Operands ==
  {Num(k) : k \in ArithVals} \cup {DualNumber(a, b) : a \in ArithVals, b \in ArithVals}

InitArith ==
  /\ heap = << >>
  /\ refs = {}
  /\ \E p \in Operands, q \in Operands :
       /\ p.dual \/ q.dual
       /\ last = Call("operands", 0, <<p, q>>, Num(0), FALSE)
  /\ pass = NoPass
  /\ nbp = 0
  /\ derivs = << >>
  /\ evald = {}
  /\ fd = NoGradients

\* p + q
DualPlus ==
  /\ last.op = "operands"
  /\ last' = Call("+", 0, last.arg, PyAdd(last.arg[1], last.arg[2]), FALSE)
  /\ UNCHANGED <<heap, refs, pass, nbp, derivs, evald, fd>>

\* p * q
DualTimes ==
  /\ last.op = "operands"
  /\ last' = Call("*", 0, last.arg, PyMul(last.arg[1], last.arg[2]), FALSE)
  /\ UNCHANGED <<heap, refs, pass, nbp, derivs, evald, fd>>

ArithNext == DualPlus \/ DualTimes

SpecArith == InitArith /\ [][ArithNext]_vars

(***************************************************************************)
(* Finite differences: gradients(func, vars_list, eps).  func is a Python  *)
(* callable the client passes; the model draws it from Funcs.  A list      *)
(* index idx of the code is idx here plus one.  `/` is Python's true       *)
(* division: the quotient is kept exact, as the fraction num/den.          *)
(*   fd.given      the contents of vars_list when the call was made        *)
(*   fd.vars_list  the contents of the caller's list object now            *)
(*   fd.calls      the argument lists func was called with, in order       *)
(*   fd.ret        the list gradients() returned                           *)
(***************************************************************************)
MaxDim == 3          \* vars_list has 0..MaxDim entries
MaxCoord == 2        \* each entry of vars_list is in 0..MaxCoord
MaxStep == 2         \* eps is in 1..MaxStep

Points == UNION {[1 .. n -> 0 .. MaxCoord] : n \in 0 .. MaxDim}

Steps == 1 .. MaxStep

\* The callables the client passes: variadic ones, and the f of the
\* notebook, which takes exactly x and y.
Funcs == {"sum", "product", "ramp", "squares", "f"}

RECURSIVE SumOver(_, _)
SumOver(args, i) ==
  IF i > Len(args) THEN 0 ELSE args[i] + SumOver(args, i + 1)

RECURSIVE ProductOver(_, _)
ProductOver(args, i) ==
  IF i > Len(args) THEN 1 ELSE args[i] * ProductOver(args, i + 1)

\* func(*args)
Apply(func, args) ==
  CASE func = "sum" -> SumOver(args, 1)
    [] func = "product" -> ProductOver(args, 1)
    [] func = "ramp" -> SumOver([i \in DOMAIN args |-> i * args[i]], 1)
    [] func = "squares" -> SumOver([i \in DOMAIN args |-> args[i] * args[i]], 1)
    [] func = "f" -> args[1] * args[1] * args[2] + args[2] + 2

Arity(func, n) == func = "f" => n = 2

Div(num, den) == [num |-> num, den |-> den]

\* A slip in the start of gradients: the base value is computed twice
gradients_start_twice(func, vars_list) ==
  [vars_list |-> vars_list,
   partial_derivatives |-> << >>,
   base_func_eval |-> Apply(func, vars_list),
   calls |-> <<vars_list, vars_list>>]

\* partial_derivatives = []; base_func_eval = func(*vars_list)
gradients_start(func, vars_list) ==
  [vars_list |-> vars_list,
   partial_derivatives |-> << >>,
   base_func_eval |-> Apply(func, vars_list),
   calls |-> <<vars_list>>]

\* A slip in the loop body: tweaked_vars = vars_list, without the copy, so
\* that the increment lands in the caller's list
gradients_body_aliasing(func, eps, s, idx) ==
  LET tweaked_vars == [s.vars_list EXCEPT ![idx] = @ + eps]
      tweaked_func_eval == Apply(func, tweaked_vars)
      derivative == Div(tweaked_func_eval - s.base_func_eval, eps)
  IN [s EXCEPT !.vars_list = tweaked_vars,
               !.partial_derivatives = Append(@, derivative),
               !.calls = Append(@, tweaked_vars)]

\* One iteration of the loop: tweaked_vars is a copy of vars_list, its
\* entry idx is increased, func is called on it.
gradients_body(func, eps, s, idx) ==
  LET tweaked_vars == [s.vars_list EXCEPT ![idx] = @ + eps]
      tweaked_func_eval == Apply(func, tweaked_vars)
      derivative == Div(tweaked_func_eval - s.base_func_eval, eps)
  IN [s EXCEPT !.partial_derivatives = Append(@, derivative),
               !.calls = Append(@, tweaked_vars)]

\* for idx in range(len(vars_list)), from idx on
RECURSIVE gradients_loop(_, _, _, _)
gradients_loop(func, eps, s, idx) ==
  IF idx > Len(s.vars_list)
  THEN s
  ELSE gradients_loop(func, eps, gradients_body(func, eps, s, idx), idx + 1)

gradients(func, vars_list, eps) ==
  gradients_loop(func, eps, gradients_start(func, vars_list), 1)

InitGradients ==
  /\ heap = << >>
  /\ refs = {}
  /\ last = NoCall
  /\ pass = NoPass
  /\ nbp = 0
  /\ derivs = << >>
  /\ evald = {}
  /\ \E func \in Funcs, vars_list \in Points, eps \in Steps :
       /\ Arity(func, Len(vars_list))
       /\ fd = [stage |-> "args", func |-> func, given |-> vars_list,
                vars_list |-> vars_list, eps |-> eps,
                calls |-> << >>, ret |-> << >>]

\* gradients(func, vars_list, eps)
GradientsCall ==
  /\ fd.stage = "args"
  /\ LET s == gradients(fd.func, fd.vars_list, fd.eps)
     IN fd' = [fd EXCEPT !.stage = "returned",
                         !.vars_list = s.vars_list,
                         !.calls = s.calls,
                         !.ret = s.partial_derivatives]
  /\ UNCHANGED <<heap, refs, last, pass, nbp, derivs, evald>>

GradientsNext == GradientsCall

SpecGradients == InitGradients /\ [][GradientsNext]_vars

(***************************************************************************)
(* The string form of a graph, __str__.  A Python string is the sequence   *)
(* of its characters.  A Var's name is one character; str(value) of a      *)
(* Const is the decimal form of a non-negative whole number.               *)
(***************************************************************************)
MaxStrNodes == 4     \* nodes the client constructs before rendering them

DigitChars == <<"0", "1", "2", "3", "4", "5", "6", "7", "8", "9">>

\* str(n) of a non-negative whole number
RECURSIVE Digits(_)
Digits(n) ==
  IF n < 10
  THEN <<DigitChars[n + 1]>>
  ELSE Digits(n \div 10) \o <<DigitChars[(n % 10) + 1]>>

RECURSIVE str(_, _)

Const__str__(h, n) == Digits(h[n].value.value)

Var__str__(h, n) == <<h[n].name>>

\* A variant of Add.__str__ that parenthesizes: "({} + {})"
Add__str__parenthesized(h, n) ==
  <<"(">> \o str(h, h[n].a) \o <<" ", "+", " ">> \o str(h, h[n].b) \o <<")">>

\* "{} + {}".format(self.a, self.b)
Add__str__(h, n) == str(h, h[n].a) \o <<" ", "+", " ">> \o str(h, h[n].b)

\* "({}) * ({})".format(self.a, self.b)
Mul__str__(h, n) ==
  <<"(">> \o str(h, h[n].a) \o <<")", " ", "*", " ", "(">> \o str(h, h[n].b) \o <<")">>

str(h, n) ==
  CASE h[n].kind = "Const" -> Const__str__(h, n)
    [] h[n].kind = "Var" -> Var__str__(h, n)
    [] h[n].kind = "Add" -> Add__str__(h, n)
    [] h[n].kind = "Mul" -> Mul__str__(h, n)

\* The client constructs a node: a Const, a Var, or an Add or a Mul of two
\* nodes it holds.
StrNew ==
  /\ Len(heap) < MaxStrNodes
  /\ \E nd \in {Const(Num(v)) : v \in Vals}
                 \cup {Var(name, Num(0)) : name \in Names}
                 \cup {Add(a, b) : a \in refs, b \in refs}
                 \cup {Mul(a, b) : a \in refs, b \in refs} :
       heap' = Append(heap, nd)
  /\ refs' = refs \cup {Len(heap) + 1}
  /\ last' = NoCall
  /\ UNCHANGED <<pass, nbp, derivs, evald, fd>>

\* print(n)
StrCall ==
  \E n \in refs :
    /\ last' = Call("str", n, Num(0), str(heap, n), FALSE)
    /\ UNCHANGED <<heap, refs, pass, nbp, derivs, evald, fd>>

StrNext == StrNew \/ StrCall

SpecStr == InitCommon /\ [][StrNext]_vars

(***************************************************************************)
(* The cells that take second-order derivatives: the two first-order       *)
(* derivatives of a node by two Vars, then each differentiated by the      *)
(* other Var.                                                              *)
(***************************************************************************)
\* du = g.gradient(u); dv = g.gradient(v);
\* d2dudv = du.gradient(v); d2dvdu = dv.gradient(u)
MixedDerivativesCall ==
  \E g \in refs, u \in refs, v \in refs :
    LET du == gradient(heap, g, u)
        dv == gradient(du.h, g, v)
        d2dudv == gradient(dv.h, du.r, v)
        d2dvdu == gradient(d2dudv.h, dv.r, u)
    IN /\ IsVar(heap, u)
       /\ IsVar(heap, v)
       /\ derivs = << >>
       /\ heap' = d2dvdu.h
       /\ refs' = refs \cup {du.r, dv.r, d2dudv.r, d2dvdu.r}
       /\ derivs' = << [r |-> du.r, of |-> g, wrt |-> u, rebound |-> FALSE],
                       [r |-> dv.r, of |-> g, wrt |-> v, rebound |-> FALSE],
                       [r |-> d2dudv.r, of |-> du.r, wrt |-> v, rebound |-> FALSE],
                       [r |-> d2dvdu.r, of |-> dv.r, wrt |-> u, rebound |-> FALSE] >>
       /\ last' = Call("gradient", g, Num(0), Num(0), FALSE)
       /\ UNCHANGED <<pass, nbp, evald, fd>>

SecondOrderNext ==
  \/ NewConst
  \/ NewVar
  \/ NewAdd
  \/ NewMul
  \/ RebindNum
  \/ FwdEvaluateCall
  \/ MixedDerivativesCall

SpecSecondOrder == InitCommon /\ [][SecondOrderNext]_vars

(***************************************************************************)
(* Properties of the reverse-mode pass (SpecRev).                          *)
(***************************************************************************)
\* The heap starts with the objects of f.
IsFGraph(h) ==
  /\ Len(h) >= Len(FGraph)
  /\ \A n \in DOMAIN FGraph :
       /\ h[n].kind = FGraph[n].kind
       /\ h[n].a = FGraph[n].a
       /\ h[n].b = FGraph[n].b

\* Every Var of the pass's root holds k times the partial derivative of the
\* root with respect to it at the evaluated point.
AccumulatedIs(k) ==
  \A v \in VarsOf(heap, pass.root) :
    heap[v].gradient = Num(k * Partial(heap, pass.root, v, pass.pt))

\* C1: after evaluate() and backpropagate(1.0) on a root whose Vars all had
\* accumulator 0, every reachable Var's accumulator is the partial derivative
\* of the root with respect to it at the evaluated point (shared Vars and
\* shared composite nodes included); for f at (3, 4) they are 24 and 10.
C1_ReverseModeGradient ==
  pass.stage = "done" /\ pass.k = 1 =>
    /\ AccumulatedIs(1)
    /\ ( /\ IsFGraph(heap)
         /\ pass.root = FRoot
         /\ pass.pt[FX] = 3
         /\ pass.pt[FY] = 4 )
       => heap[FX].gradient = Num(24) /\ heap[FY].gradient = Num(10)

C1_Witness ==
  /\ pass.stage = "done"
  /\ pass.k = 1
  /\ IsFGraph(heap)
  /\ pass.root = FRoot
  /\ last.op = "backpropagate"
  /\ heap[FX].gradient = Num(24)
  /\ heap[FY].gradient = Num(10)

\* C5: neither evaluate nor backpropagate clears an accumulator: after k
\* consecutive evaluate()+backpropagate(1.0) passes on one root at one point
\* every reachable Var's accumulator is k times its single-pass gradient.
C5_NoImplicitReset == pass.stage = "done" => AccumulatedIs(pass.k)

C5_Witness ==
  /\ pass.stage = "done"
  /\ pass.k = 2
  /\ last.op = "backpropagate"
  /\ \E v \in VarsOf(heap, pass.root) : heap[v].gradient.value >= 2

\* The rebound Vars of the pass's root: their value differs from the one
\* evaluate() saw.
Rebound == {v \in VarsOf(heap, pass.root) : heap[v].value.value # pass.pt[v]}

NoMulReadsRebound ==
  \A m \in Reach(heap, pass.root) :
    heap[m].kind = "Mul" => heap[m].a \notin Rebound /\ heap[m].b \notin Rebound

FirstBackpropUnevaluated ==
  /\ last.op = "backpropagate"
  /\ nbp = 1
  /\ ~IsLeaf(heap, last.node)
  /\ last.node \notin evald

NoAccumulatorChanged == \A n \in DOMAIN heap : heap[n].gradient = Num(0)

\* C7 as claimed: backpropagate on a root that was never evaluated is
\* rejected with an error and changes no accumulator.
C7_FailFast == FirstBackpropUnevaluated => last.err /\ NoAccumulatorChanged

\* Some Mul node under n has an Add or Mul operand that evaluate() never ran on.
MulReadsMissingValue(h, n) ==
  \E m \in Reach(h, n) :
    /\ h[m].kind = "Mul"
    /\ \E o \in {h[m].a, h[m].b} : ~IsLeaf(h, o) /\ o \notin evald

\* C7 amended: backpropagate on a never-evaluated root raises exactly when
\* some Mul node of the graph has an Add or Mul operand that was never
\* evaluated (the read of its value attribute fails); otherwise it completes.
\* Accumulators updated before the failing read stay updated.
C7_RaisesOnMissingOperandValue ==
  FirstBackpropUnevaluated => (last.err <=> MulReadsMissingValue(heap, last.node))

C7_Witness ==
  /\ FirstBackpropUnevaluated
  /\ last.err
  /\ IsFGraph(heap)
  /\ heap[FX].gradient = Num(24)

\* C10: a Var starts with accumulator 0, and backpropagate(seed) on a fresh
\* single Var leaves its accumulator equal to seed.
C10_AccumulatorStartAndSeed ==
  /\ nbp = 0 => \A n \in DOMAIN heap : IsVar(heap, n) => heap[n].gradient = Num(0)
  /\ (last.op = "backpropagate" /\ nbp = 1 /\ IsVar(heap, last.node))
       => ~last.err /\ heap[last.node].gradient = last.arg

C10_Witness ==
  /\ last.op = "backpropagate"
  /\ nbp = 1
  /\ IsVar(heap, last.node)
  /\ last.arg = Num(2)
  /\ heap[last.node].gradient = Num(2)

\* C13: when evaluate() on a root has returned, every Add and Mul node
\* reachable from the root has a value attribute holding the value of its own
\* sub-expression at the Vars' present values, the root's being the returned
\* result; an operand is evaluated also when the other operand is 0; a
\* further evaluate() replaces what the attributes held.
C13_ForwardPassCache ==
  last.op = "evaluate" =>
    /\ \A m \in Reach(heap, last.node) :
         ~IsLeaf(heap, m) =>
           /\ heap[m].has
           /\ heap[m].value = Num(ValueAt(heap, m, Point(heap)))
    /\ last.ret = Num(ValueAt(heap, last.node, Point(heap)))
    /\ ~IsLeaf(heap, last.node) => heap[last.node].value = last.ret

\* evaluate() has returned on a Mul whose first operand is 0 and whose second
\* operand is an Add or a Mul: the second operand holds its value.
C13_Witness ==
  /\ last.op = "evaluate"
  /\ heap[last.node].kind = "Mul"
  /\ evaluate(heap, heap[last.node].a).v = Num(0)
  /\ ~IsLeaf(heap, heap[last.node].b)
  /\ heap[heap[last.node].b].has
  /\ heap[last.node].value = Num(0)

\* The Add and Mul nodes under n.
Composites(h, n) == {m \in Reach(h, n) : ~IsLeaf(h, m)}

\* The heap after n.backpropagate(gradient) when the nodes of bfirst visit
\* their operand b before their operand a, and the other nodes a before b.
\* Each operand of a Mul receives gradient times the other operand's value.
RECURSIVE BackpropagateInOrder(_, _, _, _)
BackpropagateInOrder(h, n, g, bfirst) ==
  LET o1 == IF n \in bfirst THEN h[n].b ELSE h[n].a
      o2 == IF n \in bfirst THEN h[n].a ELSE h[n].b
  IN CASE h[n].kind = "Const" -> h
       [] h[n].kind = "Var" -> VarBackpropagate(h, n, g).h
       [] h[n].kind = "Add" ->
            BackpropagateInOrder(BackpropagateInOrder(h, o1, g, bfirst),
                                 o2, g, bfirst)
       [] h[n].kind = "Mul" ->
            LET h1 == BackpropagateInOrder(h, o1, PyMul(g, OperandValue(h, o2)), bfirst)
            IN BackpropagateInOrder(h1, o2, PyMul(g, OperandValue(h1, o1)), bfirst)

\* C14: on a graph evaluate() has run on, backpropagate leaves the same
\* accumulators whichever operand, a or b, each Add and Mul node visits
\* first.
C14_OrderIndependence ==
  [][(/\ nbp' = nbp + 1
      /\ Composites(heap, last'.node) \subseteq evald)
     => \A bfirst \in SUBSET Composites(heap, last'.node) :
          heap' = BackpropagateInOrder(heap, last'.node, last'.arg, bfirst)]_vars

\* backpropagate has returned on the evaluated f, whose Vars x and y are
\* each reached along several paths.
C14_Witness ==
  /\ IsFGraph(heap)
  /\ last.op = "backpropagate"
  /\ last.node = FRoot
  /\ ~last.err
  /\ Composites(heap, FRoot) \subseteq evald
  /\ heap[FX].gradient # Num(0)
  /\ heap[FY].gradient # Num(0)

(***************************************************************************)
(* Properties of the forward-mode symbolic gradient (SpecFwd).             *)
(***************************************************************************)
\* The partial derivatives of f(x, y) = x*x*y + y + 2 at (3, 4).
FPartial(u) == IF u = FX THEN 24 ELSE 10

FPartial2(u, v) ==
  IF u = FX /\ v = FX THEN 8 ELSE IF u = FY /\ v = FY THEN 0 ELSE 6

FAt34(h) == IsFGraph(h) /\ h[FX].value = Num(3) /\ h[FY].value = Num(4)

FAt34Dual == IsFGraph(heap) /\ heap[FX].value.value = 3 /\ heap[FY].value.value = 4

\* C2: the graph returned by g.gradient(u) evaluates to the first partial
\* derivative of g by u, and the graph returned by g.gradient(u).gradient(v)
\* to the second partial derivative by u and v, at every point; for f at
\* (3, 4) the first derivatives are 24 and 10 and the Hessian [[8,6],[6,0]].
C2_ForwardModeDerivatives ==
  /\ \A i \in DOMAIN derivs :
       LET d == derivs[i] IN
       /\ FwdEvaluate(heap, d.r) = Num(Partial(heap, d.of, d.wrt, Point(heap)))
       /\ (FAt34(heap) /\ d.of = FRoot /\ d.wrt \in {FX, FY})
            => FwdEvaluate(heap, d.r) = Num(FPartial(d.wrt))
  /\ \A i \in DOMAIN derivs, j \in DOMAIN derivs :
       LET d == derivs[i]
           e == derivs[j]
       IN e.of = d.r =>
            /\ FwdEvaluate(heap, e.r) =
                 Num(Partial2(heap, d.of, d.wrt, e.wrt, Point(heap)))
            /\ (FAt34(heap) /\ d.of = FRoot /\ d.wrt \in {FX, FY} /\ e.wrt \in {FX, FY})
                 => FwdEvaluate(heap, e.r) = Num(FPartial2(d.wrt, e.wrt))

C2_Witness ==
  /\ FAt34(heap)
  /\ Len(derivs) = 2
  /\ derivs[1].of = FRoot
  /\ derivs[1].wrt = FX
  /\ derivs[2].of = derivs[1].r
  /\ derivs[2].wrt = FY
  /\ last.op = "evaluate"
  /\ last.node = derivs[2].r
  /\ last.ret = Num(6)

\* C8: g.gradient(v) changes no field of any existing node, so every
\* existing node evaluates as before; the node it returns is new and is not
\* a node of g; and two calls with the same arguments return graphs that
\* evaluate identically at every point.
C8_GradientIsPure ==
  /\ [][Len(derivs') > Len(derivs) =>
          LET d == derivs'[Len(derivs')] IN
          /\ SubSeq(heap', 1, Len(heap)) = heap
          /\ d.r > Len(heap)
          /\ d.r \notin Reach(heap', d.of)
          /\ \A n \in DOMAIN heap : FwdEvaluate(heap', n) = FwdEvaluate(heap, n)]_vars
  /\ [](\A i \in DOMAIN derivs, j \in DOMAIN derivs :
          (derivs[i].of = derivs[j].of /\ derivs[i].wrt = derivs[j].wrt)
            => FwdEvaluate(heap, derivs[i].r) = FwdEvaluate(heap, derivs[j].r))

C8_Witness ==
  /\ Len(derivs) = 2
  /\ derivs[1].of = derivs[2].of
  /\ derivs[1].wrt = derivs[2].wrt
  /\ derivs[1].r # derivs[2].r
  /\ heap[derivs[1].of].kind = "Mul"
  /\ FwdEvaluate(heap, derivs[2].r) # Num(0)

\* C9: gradient decides by object identity: for a Var t that is not a node
\* of g, same-named Vars of g included, g.gradient(t) evaluates to 0 at
\* every point; and a same-named Var of g other than the target contributes
\* nothing to the derivative by the target.
C9_TargetIdentity ==
  \A i \in DOMAIN derivs :
    LET d == derivs[i] IN
    /\ d.wrt \notin Reach(heap, d.of) => FwdEvaluate(heap, d.r) = Num(0)
    /\ (\E w \in VarsOf(heap, d.of) : w # d.wrt /\ heap[w].name = heap[d.wrt].name)
         => FwdEvaluate(heap, d.r) = Num(Partial(heap, d.of, d.wrt, Point(heap)))

C9_Witness ==
  \E i \in DOMAIN derivs :
    LET d == derivs[i] IN
    /\ d.wrt \notin Reach(heap, d.of)
    /\ \E w \in VarsOf(heap, d.of) :
         heap[w].name = heap[d.wrt].name /\ heap[w].value = heap[d.wrt].value
    /\ ~IsLeaf(heap, d.of)
    /\ FwdEvaluate(heap, d.of) # Num(0)
    /\ last.op = "evaluate"
    /\ last.node = d.r
    /\ last.ret = Num(0)

\* Node r is what the rewrite rules of gradient produce for node n and the
\* target var: Const -> Const(0); Var -> Const(1) for the target, else
\* Const(0); Add(a, b) -> Add(a', b'); Mul(a, b) -> Add(Mul(a, b'), Mul(a', b)),
\* where a and b are the operand objects of n themselves.
RECURSIVE IsRewriteOf(_, _, _, _)
IsRewriteOf(h, r, n, var) ==
  CASE h[n].kind = "Const" -> h[r].kind = "Const" /\ h[r].value = Num(0)
    [] h[n].kind = "Var" ->
         /\ h[r].kind = "Const"
         /\ h[r].value = IF n = var THEN Num(1) ELSE Num(0)
    [] h[n].kind = "Add" ->
         /\ h[r].kind = "Add"
         /\ IsRewriteOf(h, h[r].a, h[n].a, var)
         /\ IsRewriteOf(h, h[r].b, h[n].b, var)
    [] h[n].kind = "Mul" ->
         /\ h[r].kind = "Add"
         /\ h[h[r].a].kind = "Mul"
         /\ h[h[r].a].a = h[n].a
         /\ IsRewriteOf(h, h[h[r].a].b, h[n].b, var)
         /\ h[h[r].b].kind = "Mul"
         /\ IsRewriteOf(h, h[h[r].b].a, h[n].a, var)
         /\ h[h[r].b].b = h[n].b

\* C12: the graph gradient(var) returns is exactly what the rewrite rules
\* give, with no simplification; Add(x, Const(c)).gradient(x) is
\* Add(Const(1), Const(0)), two new Consts under a new Add.
C12_RewriteRules ==
  \A i \in DOMAIN derivs :
    LET d == derivs[i] IN
    /\ IsRewriteOf(heap, d.r, d.of, d.wrt)
    /\ (/\ heap[d.of].kind = "Add"
        /\ heap[d.of].a = d.wrt
        /\ heap[heap[d.of].b].kind = "Const")
       => /\ heap[d.r].kind = "Add"
          /\ heap[heap[d.r].a].kind = "Const"
          /\ heap[heap[d.r].a].value = Num(1)
          /\ heap[heap[d.r].b].kind = "Const"
          /\ heap[heap[d.r].b].value = Num(0)
          /\ heap[d.r].a # heap[d.r].b

\* f.gradient(y) has been taken: under its root are the two products of the
\* Mul rule, the first on the operand object Mul(x, x) itself, and
\* Add(Const(1), Const(0)), the unsimplified derivative of Add(y, Const(2)).
C12_Witness ==
  \E i \in DOMAIN derivs :
    LET d == derivs[i] IN
    /\ IsFGraph(heap)
    /\ d.of = FRoot
    /\ d.wrt = FY
    /\ heap[heap[heap[d.r].a].a].a = heap[heap[FRoot].a].a
    /\ heap[heap[heap[d.r].b].a].value = Num(1)
    /\ heap[heap[heap[d.r].b].b].value = Num(0)

\* C17: a derivative graph d = g.gradient(v) stays live.  The Vars under d
\* are Var objects of g, and after a Var of g was given another value,
\* d.evaluate() returns the partial derivative of g by v at the Vars' present
\* values.
C17_DerivativeStaysLive ==
  \A i \in DOMAIN derivs :
    LET d == derivs[i] IN
    /\ VarsOf(heap, d.r) \subseteq VarsOf(heap, d.of)
    /\ d.rebound =>
         /\ FwdEvaluate(heap, d.r) = Num(Partial(heap, d.of, d.wrt, Point(heap)))
         /\ (last.op = "evaluate" /\ last.node = d.r)
              => last.ret = Num(Partial(heap, d.of, d.wrt, Point(heap)))

\* dfdx = f.gradient(x) was taken, x and y were then given the value 1, and
\* dfdx.evaluate() has returned 2, the value of 2xy there.
C17_Witness ==
  \E i \in DOMAIN derivs :
    /\ IsFGraph(heap)
    /\ derivs[i].of = FRoot
    /\ derivs[i].wrt = FX
    /\ derivs[i].rebound
    /\ heap[FX].value = Num(1)
    /\ heap[FY].value = Num(1)
    /\ last.op = "evaluate"
    /\ last.node = derivs[i].r
    /\ last.ret = Num(2)

(***************************************************************************)
(* Properties of the dual-number path (SpecDualEval, SpecArith).           *)
(***************************************************************************)
\* Var t holds DualNumber(x0, 1) and every other Var of the evaluated graph
\* holds DualNumber(v, 0).
Seeded(t) ==
  /\ IsVar(heap, t)
  /\ heap[t].value.dual
  /\ heap[t].value.eps = 1
  /\ \A u \in VarsOf(heap, last.node) \ {t} :
       heap[u].value.dual /\ heap[u].value.eps = 0

\* evaluate() returned the DualNumber of the graph's value and of its
\* partial derivative by t.
ReturnedValueAndPartial(t) ==
  last.ret = DualNumber(ValueAt(heap, last.node, Point(heap)),
                        Partial(heap, last.node, t, Point(heap)))

\* C3 as claimed: for every graph, with the target seeded, evaluate()
\* returns a DualNumber holding the graph's value and its partial derivative.
C3_DualPathEveryGraph ==
  last.op = "evaluate" =>
    \A t \in DOMAIN heap : Seeded(t) => ReturnedValueAndPartial(t)

\* C3 amended: the same for every graph that contains at least one Var (a
\* graph of Consts alone evaluates to a bare number, which has no eps); for
\* f at (3, 4) the value is 42 and eps is 24 for x and 10 for y.
C3_DualPathGraphWithVar ==
  (last.op = "evaluate" /\ VarsOf(heap, last.node) # {}) =>
    \A t \in DOMAIN heap :
      Seeded(t) =>
        /\ ReturnedValueAndPartial(t)
        /\ (FAt34Dual /\ last.node = FRoot /\ t \in {FX, FY})
             => last.ret = DualNumber(42, FPartial(t))

C3_Witness ==
  /\ last.op = "evaluate"
  /\ last.node = FRoot
  /\ IsFGraph(heap)
  /\ heap[FX].value = DualNumber(3, 1)
  /\ heap[FY].value = DualNumber(4, 0)
  /\ last.ret = DualNumber(42, 24)

\* A bare number k counts as (k, 0).
ValueOf(p) == p.value

EpsOf(p) == IF p.dual THEN p.eps ELSE 0

\* C4: (a1,b1) + (a2,b2) = (a1+a2, b1+b2) and (a1,b1) * (a2,b2) =
\* (a1*a2, a1*b2 + a2*b1), a bare number k on either side counting as (k, 0);
\* the result is a DualNumber, and k + d = d + k, k * d = d * k.
C4_DualArithmetic ==
  /\ last.op = "+" =>
       LET p == last.arg[1]
           q == last.arg[2]
       IN /\ last.ret = DualNumber(ValueOf(p) + ValueOf(q), EpsOf(p) + EpsOf(q))
          /\ last.ret = PyAdd(q, p)
          /\ (p = Num(3) /\ q = DualNumber(3, 4)) => last.ret = DualNumber(6, 4)
  /\ last.op = "*" =>
       LET p == last.arg[1]
           q == last.arg[2]
       IN /\ last.ret = DualNumber(ValueOf(p) * ValueOf(q),
                                   ValueOf(p) * EpsOf(q) + ValueOf(q) * EpsOf(p))
          /\ last.ret = PyMul(q, p)
          /\ (p = DualNumber(3, 4) /\ q = DualNumber(5, 7)) => last.ret = DualNumber(15, 41)

C4_Witness ==
  /\ last.op = "*"
  /\ last.arg = <<Num(2), DualNumber(3, 4)>>
  /\ last.ret = DualNumber(6, 8)

(***************************************************************************)
(* Properties of the finite-difference estimator (SpecGradients).          *)
(***************************************************************************)
\* The point p with only coordinate i increased by eps.
OnlyTweaked(p, i, eps) == [j \in DOMAIN p |-> IF j = i THEN p[j] + eps ELSE p[j]]

\* C11: gradients(func, vars_list, eps) returns one entry per input
\* dimension, in input order; entry i is (func(point with only coordinate i
\* increased by eps) - func(point)) / eps; the evaluation for coordinate i
\* carries no perturbation of another coordinate; the caller's vars_list is
\* left as it was given.
C11_FiniteDifferences ==
  fd.stage = "returned" =>
    /\ Len(fd.ret) = Len(fd.given)
    /\ \A i \in DOMAIN fd.given :
         /\ fd.ret[i] = Div(Apply(fd.func, OnlyTweaked(fd.given, i, fd.eps))
                              - Apply(fd.func, fd.given), fd.eps)
         /\ fd.calls[i + 1] = OnlyTweaked(fd.given, i, fd.eps)
    /\ fd.vars_list = fd.given

\* gradients has returned for a three-dimensional point and a func whose
\* partial derivatives all differ.
C11_Witness ==
  /\ fd.stage = "returned"
  /\ fd.func = "ramp"
  /\ Len(fd.given) = MaxDim
  /\ fd.ret = [i \in 1 .. MaxDim |-> Div(i * fd.eps, fd.eps)]
  /\ fd.eps > 1

RECURSIVE Tree(_, _)
Tree(h, n) ==
  CASE h[n].kind = "Const" -> [k |-> "leaf", t |-> Digits(h[n].value.value), kids |-> << >>]
    [] h[n].kind = "Var" -> [k |-> "leaf", t |-> <<h[n].name>>, kids |-> << >>]
    [] h[n].kind = "Add" ->
         [k |-> "sum", t |-> << >>, kids |-> <<Tree(h, h[n].a), Tree(h, h[n].b)>>]
    [] h[n].kind = "Mul" ->
         [k |-> "product", t |-> << >>, kids |-> <<Tree(h, h[n].a), Tree(h, h[n].b)>>]

\* The same tree with nested Adds flattened: a sum has the sequence of its
\* summands, left to right, none of which is a sum.
RECURSIVE Flat(_, _)
RECURSIVE Summands(_, _)
Summands(h, n) ==
  IF h[n].kind = "Add"
  THEN Summands(h, h[n].a) \o Summands(h, h[n].b)
  ELSE <<Flat(h, n)>>

Flat(h, n) ==
  CASE h[n].kind = "Const" -> [k |-> "leaf", t |-> Digits(h[n].value.value), kids |-> << >>]
    [] h[n].kind = "Var" -> [k |-> "leaf", t |-> <<h[n].name>>, kids |-> << >>]
    [] h[n].kind = "Add" -> [k |-> "sum", t |-> << >>, kids |-> Summands(h, n)]
    [] h[n].kind = "Mul" ->
         [k |-> "product", t |-> << >>, kids |-> <<Flat(h, h[n].a), Flat(h, h[n].b)>>]

\* "((x) * (x)) * (y) + y + 2", the output of print(f)
FText ==
  <<"(", "(", "x", ")", " ", "*", " ", "(", "x", ")", ")", " ", "*", " ",
    "(", "y", ")", " ", "+", " ", "y", " ", "+", " ", "2">>

\* C16 as stated: the rendering is fully parenthesized, so two graphs that
\* differ in how operands are grouped never render to the same string.
C16_FullyParenthesized ==
  \A m \in DOMAIN heap, n \in DOMAIN heap :
    Tree(heap, m) # Tree(heap, n) => str(heap, m) # str(heap, n)

\* C16: Mul renders "(a) * (b)", each operand in parentheses, and Add renders
\* "a + b" with no parentheses; Const renders its value and Var its name.  Two
\* graphs render to the same string exactly when they are equal up to the
\* grouping of nested Adds; f renders "((x) * (x)) * (y) + y + 2".
C16_MulParenthesizedAddFlat ==
  /\ \A m \in DOMAIN heap, n \in DOMAIN heap :
       str(heap, m) = str(heap, n) <=> Flat(heap, m) = Flat(heap, n)
  /\ \A n \in DOMAIN heap :
       /\ heap[n].kind = "Var" => str(heap, n) = <<heap[n].name>>
       /\ heap[n].kind = "Const" => str(heap, n) = Digits(heap[n].value.value)
  /\ (last.op = "str" /\ IsFGraph(heap) /\ last.node = FRoot) => last.ret = FText

\* A graph has been rendered whose text is also the text of another graph
\* with the Adds grouped the other way.
C16_Witness ==
  /\ last.op = "str"
  /\ \E n \in DOMAIN heap :
       /\ Tree(heap, n) # Tree(heap, last.node)
       /\ str(heap, n) = last.ret
       /\ heap[last.node].kind = "Add"
       /\ heap[n].kind = "Add"

(***************************************************************************)
(* Properties of the second-order derivatives (SpecSecondOrder).           *)
(***************************************************************************)
\* C18: g.gradient(u).gradient(v).evaluate() equals
\* g.gradient(v).gradient(u).evaluate(), for every graph g, Vars u and v and
\* assignment of values to the Vars.
C18_MixedPartialsSymmetric ==
  \A i \in DOMAIN derivs, j \in DOMAIN derivs, k \in DOMAIN derivs, l \in DOMAIN derivs :
    (/\ derivs[i].of = derivs[k].of
     /\ derivs[j].of = derivs[i].r
     /\ derivs[l].of = derivs[k].r
     /\ derivs[j].wrt = derivs[k].wrt
     /\ derivs[l].wrt = derivs[i].wrt)
    => /\ FwdEvaluate(heap, derivs[j].r) = FwdEvaluate(heap, derivs[l].r)
       /\ (last.op = "evaluate" /\ last.node = derivs[j].r)
            => last.ret = FwdEvaluate(heap, derivs[l].r)

\* d2fdxdy.evaluate() has returned 6 at x = 3, y = 4, which d2fdydx
\* evaluates to as well, and the two graphs differ: they render differently.
C18_Witness ==
  /\ IsFGraph(heap)
  /\ Len(derivs) = 4
  /\ derivs[1].of = FRoot
  /\ derivs[1].wrt = FX
  /\ derivs[2].wrt = FY
  /\ last.op = "evaluate"
  /\ last.node = derivs[3].r
  /\ last.ret = Num(6)
  /\ FwdEvaluate(heap, derivs[4].r) = Num(6)
  /\ str(heap, derivs[3].r) # str(heap, derivs[4].r)

====
